---------------------------- MODULE Spec2Model ----------------------------
(***************************************************************************)
(* Geometry engine of imgconv (src/src/calc.rs): focal-point projection,   *)
(* aspect-ratio completion, contain/cover scaling and crop-window          *)
(* derivation, together with the two validating constructors.              *)
(*                                                                         *)
(* calc.rs computes in IEEE-754 binary64 and truncates to u32/i32.  The    *)
(* results depend on the rounding of every intermediate value (for         *)
(* instance 9.0 / (9.0 / 7.0) is below 7.0), so f64 is modelled bit-exactly:*)
(* a finite f64 is sign * m * 2^e with a 53-bit significand m held in      *)
(* 14-bit limbs, and every operation rounds to nearest, ties to even.      *)
(***************************************************************************)
EXTENDS Integers, Sequences, FiniteSets, TLC

(***************************************************************************)
(* Natural numbers of arbitrary size: little-endian tuples of limbs in     *)
(* base 2^14 (a product of two limbs plus carries stays below 2^31).       *)
(* Apart from long division the operators are written without recursion   *)
(* and build their results as tuples (f \o <<>> is the function f on 1..n  *)
(* as a tuple), which keeps the evaluation of an f64 operation shallow.    *)
(***************************************************************************)
LimbBits == 14

Base == 16384

Pow2(k) == 2 ^ k

Limb(a, i) == IF i >= 1 /\ i <= Len(a) THEN a[i] ELSE 0

MaxOf(x, y) == IF x >= y THEN x ELSE y

MinOf(x, y) == IF x <= y THEN x ELSE y

\* -1, 0, 1 for two naturals of n limbs: decided by the highest limb that
\* differs
BCmp(a, b, n) ==
    CASE \A i \in 1..n : Limb(a, i) = Limb(b, i) -> 0
      [] \E i \in 1..n : /\ Limb(a, i) > Limb(b, i)
                         /\ \A j \in (i + 1)..n : Limb(a, j) = Limb(b, j) -> 1
      [] \E i \in 1..n : /\ Limb(a, i) < Limb(b, i)
                         /\ \A j \in (i + 1)..n : Limb(a, j) = Limb(b, j) -> -1

BIsZero(a) == \A i \in 1..Len(a) : a[i] = 0

\* s holds sums of two limbs.  A carry enters position k when a lower
\* position overflows and every position between is full.
Carried(s) ==
    [k \in 1..Len(s) |->
        (s[k] + (IF \E j \in 1..(k - 1) : /\ s[j] >= Base
                                          /\ \A m \in (j + 1)..(k - 1) : s[m] = Base - 1
                 THEN 1 ELSE 0)) % Base] \o <<>>

\* a + b in n limbs
BAdd(a, b, n) == Carried([i \in 1..n |-> Limb(a, i) + Limb(b, i)] \o <<>>)

\* d holds differences of two limbs.  A borrow enters position k when a
\* lower position is negative and every position between is zero.
Borrowed(d) ==
    [k \in 1..Len(d) |->
        (d[k] + Base - (IF \E j \in 1..(k - 1) : /\ d[j] < 0
                                                 /\ \A m \in (j + 1)..(k - 1) : d[m] = 0
                        THEN 1 ELSE 0)) % Base] \o <<>>

\* a - b in n limbs, for a >= b
BSub(a, b, n) == Borrowed([i \in 1..n |-> Limb(a, i) - Limb(b, i)] \o <<>>)

\* a * k in n limbs for one limb k: the low limbs of the products plus their
\* high limbs one position up
BMulSmall(a, k, n) ==
    Carried([i \in 1..n |-> ((Limb(a, i) * k) % Base) + ((Limb(a, i - 1) * k) \div Base)] \o <<>>)

\* Column k of the schoolbook product of a and b, of four limbs each; four
\* products of limbs stay below 2^30.
MulCol(a, b, k) ==
    Limb(a, 1) * Limb(b, k) + Limb(a, 2) * Limb(b, k - 1)
        + Limb(a, 3) * Limb(b, k - 2) + Limb(a, 4) * Limb(b, k - 3)

\* a * b in n limbs: the three limbs of every column, each at its position
BMul(a, b, n) ==
    BAdd(Carried([k \in 1..n |-> (MulCol(a, b, k) % Base)
                                   + ((MulCol(a, b, k - 1) \div Base) % Base)] \o <<>>),
         [k \in 1..n |-> MulCol(a, b, k - 2) \div (Base * Base)] \o <<>>,
         n)

\* a * 2^k in n limbs: every limb is split at bit LimbBits - k % LimbBits
BShl(a, k, n) ==
    [i \in 1..n |->
        ((Limb(a, i - (k \div LimbBits)) % Pow2(LimbBits - (k % LimbBits))) * Pow2(k % LimbBits))
        + (Limb(a, i - (k \div LimbBits) - 1) \div Pow2(LimbBits - (k % LimbBits)))] \o <<>>

\* floor(a / 2^k) in n limbs
BShr(a, k, n) ==
    [i \in 1..n |->
        (Limb(a, i + (k \div LimbBits)) \div Pow2(k % LimbBits))
        + ((Limb(a, i + (k \div LimbBits) + 1) % Pow2(k % LimbBits))
              * Pow2(LimbBits - (k % LimbBits)))] \o <<>>

\* bit k of a, bit 0 being the lowest
BBit(a, k) == (Limb(a, (k \div LimbBits) + 1) \div Pow2(k % LimbBits)) % 2

\* the bits of a below bit k are all zero
BLowZero(a, k) ==
    \A i \in 1..Len(a) : /\ i <= (k \div LimbBits) => a[i] = 0
                         /\ i = (k \div LimbBits) + 1 => a[i] % Pow2(k % LimbBits) = 0

\* bit length of a natural below 2^31
SmallBitLen(x) == Cardinality({k \in 0..30 : Pow2(k) <= x})

\* index of the highest limb that is not zero, 0 for the number zero
TopIdx(a) ==
    CHOOSE i \in 0..Len(a) : (i = 0 \/ a[i] # 0) /\ \A j \in (i + 1)..Len(a) : a[j] = 0

BitLen(a) ==
    IF BIsZero(a) THEN 0 ELSE LimbBits * (TopIdx(a) - 1) + SmallBitLen(a[TopIdx(a)])

\* a natural below 2^31 as limbs, and back
BFromInt(n) == <<n % Base, (n \div Base) % Base, n \div (Base * Base)>>

BToInt(a) == Limb(a, 1) + Limb(a, 2) * Base + Limb(a, 3) * Base * Base

\* The digit of one step of long division.  D has its top limb at least
\* Base/2, so the digit estimated from the two top limbs of the running
\* remainder r is at most 2 above the largest d with d * D <= r.
Estimate(r, D) ==
    MinOf((Limb(r, Len(D) + 1) * Base + Limb(r, Len(D))) \div D[Len(D)], Base - 1)

DigitFits(r, D, d) == d >= 0 /\ BCmp(BMulSmall(D, d, Len(r)), r, Len(r)) <= 0

FixDigit(r, D, q0) ==
    CHOOSE d \in {q0 - 2, q0 - 1, q0} :
        DigitFits(r, D, d) /\ \A d2 \in {q0 - 2, q0 - 1, q0} : d2 > d => ~DigitFits(r, D, d2)

\* One step: r is the running remainder with the next limb of the dividend
\* brought down, q the digits found so far.
DivStep(D, r, q) ==
    CHOOSE st \in {[r |-> BSub(r, BMulSmall(D, d, Len(r)), Len(D)), q |-> <<d>> \o q] :
                     d \in {FixDigit(r, D, Estimate(r, D))}} : TRUE

\* Long division of N by D, limb by limb from the top; each step is
\* completed before the next one starts.
RECURSIVE BDivAt(_, _, _, _)
BDivAt(N, D, i, st) ==
    IF i = 0 THEN st
    ELSE CHOOSE res \in {BDivAt(N, D, i - 1, s) :
                            s \in {DivStep(D, <<N[i]>> \o st.r, st.q)}} : TRUE

\* [q, r] with N = q * D + r.  The top limbs of N, one fewer than D has,
\* are below D: they are the first running remainder.
BDivMod(N, D) ==
    BDivAt(N, D, Len(N) - Len(D) + 1,
           [r |-> SubSeq(N, Len(N) - Len(D) + 2, Len(N)) \o <<0>>, q |-> <<>>])

(***************************************************************************)
(* f64.  A value is [cls, neg, m, e]: cls "num" is neg * m * 2^e with m    *)
(* either zero or a 53-bit significand (2^52 <= m < 2^53) in four limbs;   *)
(* "inf" and "nan" are the IEEE infinities and NaN.  The exponents met in  *)
(* the modelled ranges stay far inside the binary64 exponent range, so     *)
(* there is no overflow to infinity and no subnormal result.               *)
(***************************************************************************)
MantBits == 53

MantLimbs == 4

\* the significands 0, 2^52 and 2^53 - 1
MantZero == BShl(<<0>>, 0, MantLimbs)

MantMin == BShl(<<1>>, MantBits - 1, MantLimbs)

MantMax == BSub(BShl(<<1>>, MantBits, MantLimbs), <<1>>, MantLimbs)

F64Num(neg, m, e) == [cls |-> "num", neg |-> neg, m |-> m, e |-> e]

F64NaN == [cls |-> "nan", neg |-> FALSE, m |-> MantZero, e |-> 0]

F64Inf(neg) == [cls |-> "inf", neg |-> neg, m |-> MantZero, e |-> 0]

F64Zero(neg) == [cls |-> "num", neg |-> neg, m |-> MantZero, e |-> 0]

IsNaN(x) == x.cls = "nan"

IsInf(x) == x.cls = "inf"

IsZero(x) == x.cls = "num" /\ x.m = MantZero

\* "nan", "inf", "zero" or "num" (finite and not zero)
Kind(x) == IF IsZero(x) THEN "zero" ELSE x.cls

Finite == {"zero", "num"}

\* kept is the significand cut to 53 bits; up tells to round it up
RoundHalfEven(neg, kept, e, up) ==
    CASE ~up -> F64Num(neg, kept, e)
      [] up /\ kept = MantMax -> F64Num(neg, MantMin, e + 1)
      [] up /\ kept # MantMax -> F64Num(neg, BAdd(kept, <<1>>, MantLimbs), e)

\* L is the bit length of N.  With more than 53 bits, sh of them are
\* dropped: round up when the first dropped bit is set and either a lower
\* bit is (or sticky), or the kept significand is odd.
RoundLen(neg, N, e, sticky, L) ==
    CASE L = 0 -> F64Zero(neg)
      [] L > 0 /\ L <= MantBits ->
            F64Num(neg, BShl(N, MantBits - L, MantLimbs), e - (MantBits - L))
      [] L > MantBits ->
            RoundHalfEven(neg, BShr(N, L - MantBits, MantLimbs), e + (L - MantBits),
                          /\ BBit(N, L - MantBits - 1) = 1
                          /\ \/ sticky
                             \/ ~BLowZero(N, L - MantBits - 1)
                             \/ BBit(N, L - MantBits) = 1)

\* The f64 nearest to neg * (N + s) * 2^e, ties to even, where N is a natural
\* and s is a fraction in (0,1) when sticky holds and 0 otherwise.
RoundPack(neg, N, e, sticky) == RoundLen(neg, N, e, sticky, BitLen(N))

\* A u32 is held as the integer that has the same 32 bits in two's
\* complement: n itself below 2^31 and n - 2^32 from 2^31 on.  The casts
\* `u32 as i32` and `i32 as u32` keep the bits, and so leave the integer as
\* it is.
IntMax == 2147483647

IntMin == -IntMax - 1

\* the bits of u32::MAX = 2^32 - 1
U32Max == IntMin + IntMax

\* 2^31 as limbs
TopBit == <<0, 0, Pow2(31 - 2 * LimbBits)>>

\* the natural a u32 stands for, as limbs, and its bit length
U32Limbs(n) == IF n >= 0 THEN BFromInt(n) ELSE BAdd(BFromInt(n - IntMin), TopBit, 3)

U32BitLen(n) == IF n >= 0 THEN SmallBitLen(n) ELSE 32

\* the u32 with the bits of a natural below 2^32
U32FromLimbs(a) ==
    IF BCmp(a, TopBit, MantLimbs) >= 0 THEN BToInt(BSub(a, TopBit, 3)) + IntMin
    ELSE BToInt(a)

\* `n as f64` for a u32 n: exact, n shifted up to 53 bits
FromU32(n) ==
    IF n = 0 THEN F64Zero(FALSE)
    ELSE F64Num(FALSE, BShl(U32Limbs(n), MantBits - U32BitLen(n), MantLimbs),
                U32BitLen(n) - MantBits)

F64Neg(x) == IF IsNaN(x) THEN x ELSE [x EXCEPT !.neg = ~x.neg]

\* -1, 0, 1: the sign of a value that is not NaN
Sgn(x) == CASE IsZero(x) -> 0 [] ~IsZero(x) /\ x.neg -> -1 [] ~IsZero(x) /\ ~x.neg -> 1

\* the order of the magnitudes of two values that are neither NaN nor zero
MagCmp(x, y) ==
    CASE IsInf(x) /\ IsInf(y) -> 0
      [] IsInf(x) /\ ~IsInf(y) -> 1
      [] ~IsInf(x) /\ IsInf(y) -> -1
      [] ~IsInf(x) /\ ~IsInf(y) /\ x.e > y.e -> 1
      [] ~IsInf(x) /\ ~IsInf(y) /\ x.e < y.e -> -1
      [] ~IsInf(x) /\ ~IsInf(y) /\ x.e = y.e -> BCmp(x.m, y.m, MantLimbs)

\* -1, 0, 1 ordering of two values that are not NaN
F64Cmp(x, y) ==
    CASE Sgn(x) > Sgn(y) -> 1
      [] Sgn(x) < Sgn(y) -> -1
      [] Sgn(x) = Sgn(y) /\ Sgn(x) = 0 -> 0
      [] Sgn(x) = Sgn(y) /\ Sgn(x) # 0 -> Sgn(x) * MagCmp(x, y)

\* the comparison operators of f64: false whenever an operand is NaN
F64Lt(x, y) == ~IsNaN(x) /\ ~IsNaN(y) /\ F64Cmp(x, y) < 0

F64Gt(x, y) == ~IsNaN(x) /\ ~IsNaN(y) /\ F64Cmp(x, y) > 0

\* f64::min and f64::max: a NaN operand yields the other operand
F64Min(x, y) ==
    CASE IsNaN(x) -> y
      [] ~IsNaN(x) /\ IsNaN(y) -> x
      [] ~IsNaN(x) /\ ~IsNaN(y) -> IF F64Cmp(x, y) <= 0 THEN x ELSE y

F64Max(x, y) ==
    CASE IsNaN(x) -> y
      [] ~IsNaN(x) /\ IsNaN(y) -> x
      [] ~IsNaN(x) /\ ~IsNaN(y) -> IF F64Cmp(x, y) >= 0 THEN x ELSE y

\* Largest difference of exponents for which the smaller operand of a sum
\* can still change the rounded result, and the limbs that hold a
\* significand shifted up by that much, with one carry bit.
AlignMax == 64

AlignLimbs == ((MantBits + AlignMax) \div LimbBits) + 1

\* hi has the larger exponent; A is its significand aligned to lo's exponent
AddAligned(hi, lo, A) ==
    CASE hi.neg = lo.neg -> RoundPack(hi.neg, BAdd(A, lo.m, AlignLimbs), lo.e, FALSE)
      [] hi.neg # lo.neg /\ BCmp(A, lo.m, AlignLimbs) = 0 -> F64Zero(FALSE)
      [] hi.neg # lo.neg /\ BCmp(A, lo.m, AlignLimbs) > 0 ->
            RoundPack(hi.neg, BSub(A, lo.m, AlignLimbs), lo.e, FALSE)
      [] hi.neg # lo.neg /\ BCmp(A, lo.m, AlignLimbs) < 0 ->
            RoundPack(lo.neg, BSub(lo.m, A, AlignLimbs), lo.e, FALSE)

AddOrdered(hi, lo) ==
    IF hi.e - lo.e > AlignMax THEN hi
    ELSE AddAligned(hi, lo, BShl(hi.m, hi.e - lo.e, AlignLimbs))

F64Add(x, y) ==
    CASE IsNaN(x) \/ IsNaN(y) -> F64NaN
      [] IsInf(x) /\ IsInf(y) -> IF x.neg = y.neg THEN x ELSE F64NaN
      [] IsInf(x) /\ Kind(y) \in Finite -> x
      [] Kind(x) \in Finite /\ IsInf(y) -> y
      [] Kind(x) = "zero" /\ Kind(y) = "zero" -> F64Zero(x.neg /\ y.neg)
      [] Kind(x) = "zero" /\ Kind(y) = "num" -> y
      [] Kind(x) = "num" /\ Kind(y) = "zero" -> x
      [] Kind(x) = "num" /\ Kind(y) = "num" /\ x.e >= y.e -> AddOrdered(x, y)
      [] Kind(x) = "num" /\ Kind(y) = "num" /\ x.e < y.e -> AddOrdered(y, x)

F64Sub(x, y) == F64Add(x, F64Neg(y))

F64Mul(x, y) ==
    CASE IsNaN(x) \/ IsNaN(y) -> F64NaN
      [] IsInf(x) /\ Kind(y) = "zero" -> F64NaN
      [] Kind(x) = "zero" /\ IsInf(y) -> F64NaN
      [] IsInf(x) /\ Kind(y) \in {"inf", "num"} -> F64Inf(x.neg # y.neg)
      [] Kind(x) = "num" /\ IsInf(y) -> F64Inf(x.neg # y.neg)
      [] Kind(x) = "zero" /\ Kind(y) \in Finite -> F64Zero(x.neg # y.neg)
      [] Kind(x) = "num" /\ Kind(y) = "zero" -> F64Zero(x.neg # y.neg)
      [] Kind(x) = "num" /\ Kind(y) = "num" ->
            RoundPack(x.neg # y.neg, BMul(x.m, y.m, 2 * MantLimbs), x.e + y.e, FALSE)

\* The quotient of the significands is computed to 56 or 57 bits:
\* floor(x.m * 2^59 / (y.m * 2^3)), the divisor filling its four limbs.
DivShift == 59

DivNorm == 3

\* the quotient is complete before it is rounded
DivRound(neg, e, N, D) ==
    CHOOSE f \in {RoundPack(neg, qr.q, e, ~BIsZero(qr.r)) : qr \in {BDivMod(N, D)}} : TRUE

F64Div(x, y) ==
    CASE IsNaN(x) \/ IsNaN(y) -> F64NaN
      [] IsInf(x) /\ IsInf(y) -> F64NaN
      [] IsInf(x) /\ Kind(y) \in Finite -> F64Inf(x.neg # y.neg)
      [] Kind(x) \in Finite /\ IsInf(y) -> F64Zero(x.neg # y.neg)
      [] Kind(x) = "zero" /\ Kind(y) = "zero" -> F64NaN
      [] Kind(x) = "num" /\ Kind(y) = "zero" -> F64Inf(x.neg # y.neg)
      [] Kind(x) = "zero" /\ Kind(y) = "num" -> F64Zero(x.neg # y.neg)
      [] Kind(x) = "num" /\ Kind(y) = "num" ->
            DivRound(x.neg # y.neg, x.e - y.e - (DivShift - DivNorm),
                     BShl(x.m, DivShift, 2 * MantLimbs), BShl(y.m, DivNorm, MantLimbs))

\* the number of bits of floor(|x|) for a finite x that is not zero
IntBits(x) == MantBits + x.e

\* floor(|x|) as limbs, for a finite x with 1 to 53 integer bits
TruncMag(x) == BShr(x.m, -x.e, MantLimbs)

\* `x as u32`: truncation toward zero, saturating at 0 and u32::MAX, NaN to 0
AsU32(x) ==
    CASE IsNaN(x) -> 0
      [] ~IsNaN(x) /\ x.neg -> 0
      [] IsInf(x) /\ ~x.neg -> U32Max
      [] Kind(x) = "zero" /\ ~x.neg -> 0
      [] Kind(x) = "num" /\ ~x.neg /\ IntBits(x) > 32 -> U32Max
      [] Kind(x) = "num" /\ ~x.neg /\ IntBits(x) <= 0 -> 0
      [] Kind(x) = "num" /\ ~x.neg /\ IntBits(x) > 0 /\ IntBits(x) <= 32 ->
            U32FromLimbs(TruncMag(x))

\* `x as i32`: truncation toward zero, saturating at i32::MIN and i32::MAX,
\* NaN to 0
AsI32(x) ==
    CASE IsNaN(x) -> 0
      [] IsInf(x) -> IF x.neg THEN IntMin ELSE IntMax
      [] Kind(x) = "zero" -> 0
      [] Kind(x) = "num" /\ IntBits(x) > 31 -> IF x.neg THEN IntMin ELSE IntMax
      [] Kind(x) = "num" /\ IntBits(x) <= 0 -> 0
      [] Kind(x) = "num" /\ IntBits(x) > 0 /\ IntBits(x) <= 31 ->
            IF x.neg THEN -BToInt(TruncMag(x)) ELSE BToInt(TruncMag(x))

(***************************************************************************)
(* The arithmetic of calc.rs.  As in Rust, the operands are evaluated      *)
(* before the operation is entered: u and v range over the one value of    *)
(* each operand.                                                           *)
(***************************************************************************)
Add(x, y) == CHOOSE r \in {F64Add(u, v) : u \in {x}, v \in {y}} : TRUE

Sub(x, y) == CHOOSE r \in {F64Sub(u, v) : u \in {x}, v \in {y}} : TRUE

Mul(x, y) == CHOOSE r \in {F64Mul(u, v) : u \in {x}, v \in {y}} : TRUE

Div(x, y) == CHOOSE r \in {F64Div(u, v) : u \in {x}, v \in {y}} : TRUE

Min(x, y) == CHOOSE r \in {F64Min(u, v) : u \in {x}, v \in {y}} : TRUE

Max(x, y) == CHOOSE r \in {F64Max(u, v) : u \in {x}, v \in {y}} : TRUE

ToU32(x) == CHOOSE r \in {AsU32(u) : u \in {x}} : TRUE

ToI32(x) == CHOOSE r \in {AsI32(u) : u \in {x}} : TRUE

(***************************************************************************)
(* calc.rs                                                                 *)
(***************************************************************************)
\* Option<T>: None is the empty sequence, Some(v) is <<v>>
None == <<>>

Some(v) == <<v>>

IsSome(o) == o # None

Unwrap(o) == o[1]

\* the f64 literals of calc.rs
F0 == FromU32(0)

F1 == FromU32(1)

F2 == FromU32(2)

F50 == FromU32(50)

F100 == FromU32(100)

ValidationErr == [err |-> "ValidationErr"]

\* RelativePoint::build
RelativePointBuild(x, y) ==
    IF F64Lt(x, F0) \/ F64Gt(x, F100) THEN ValidationErr
    ELSE IF F64Lt(y, F0) \/ F64Gt(y, F100) THEN ValidationErr
    ELSE [x |-> x, y |-> y]

\* A faulty variant of OptionBox::build: demands both edges instead of at least one.
OptionBoxBuild_BothEdges(w, h) ==
    IF IsSome(w) /\ IsSome(h) THEN [w |-> w, h |-> h] ELSE ValidationErr

\* OptionBox::build
OptionBoxBuild(w, h) ==
    IF IsSome(w) \/ IsSome(h) THEN [w |-> w, h |-> h] ELSE ValidationErr

\* A `let v = e;` of calc.rs is written CHOOSE r \in {body : v \in {e}} : TRUE:
\* v is the value of e in the body that follows it.

get_space(image_length, crop_length) ==
    Div(Div(Sub(FromU32(image_length), FromU32(crop_length)),
            Div(FromU32(image_length), F100)),
        F2)

\* A faulty variant of true_focal_point_rel: the offset from the centre is not clamped
\* to the slack.
true_focal_point_rel_unclamped(focal_point, space) ==
    Add(Sub(Max(Min(focal_point, F100), F0), F50), F50)

true_focal_point_rel(focal_point, space) ==
    Add(Min(Max(Sub(Max(Min(focal_point, F100), F0), F50),
                Min(F64Neg(space), F0)),
            Max(space, F0)),
        F50)

true_focal_point(image_length, crop_length, focal_point) ==
    CHOOSE r \in
        {ToU32(Mul(FromU32(image_length), Div(rel, F100))) :
            rel \in {true_focal_point_rel(focal_point, space) :
                        space \in {get_space(image_length, crop_length)}}} : TRUE

\* i32 `a + b` and `a - b`.  A result outside i32 is an arithmetic overflow:
\* the operation panics in a build with overflow checks (the debug profile)
\* and keeps the low 32 bits in a build without them (the release profile).
AddOverflows(a, b) == (b > 0 /\ a > IntMax - b) \/ (b < 0 /\ a < IntMin - b)

WrappingAdd(a, b) ==
    CASE b > 0 /\ a > IntMax - b -> (a - IntMax - 1) + (b - IntMax - 1)
      [] b < 0 /\ a < IntMin - b -> (a + IntMax + 1) + (b + IntMax + 1)
      [] ~AddOverflows(a, b) -> a + b

SubOverflows(a, b) == (b < 0 /\ a > IntMax + b) \/ (b > 0 /\ a < IntMin + b)

WrappingSub(a, b) ==
    CASE b < 0 /\ a > IntMax + b -> (a - IntMax - 1) - (b + IntMax + 1)
      [] b > 0 /\ a < IntMin + b -> (a + IntMax + 1) - (b - IntMax - 1)
      [] ~SubOverflows(a, b) -> a - b

\* a value computed with an overflow on the way: [overflow |-> v] holds the
\* value v that the build without overflow checks computes
Checked(overflows, v) == IF overflows THEN [overflow |-> v] ELSE v

\* p is true_focal_point (`as i32` keeps its bits) and half is
\* (crop_box.w as f64 / 2.) as i32, (crop_box.h as f64 / 2.) as i32
crop_box(image_box, crop, focal_point) ==
    CHOOSE r \in
        {Checked(\/ SubOverflows(p.x, half.w)
                 \/ SubOverflows(p.y, half.h)
                 \/ AddOverflows(p.x, half.w)
                 \/ AddOverflows(p.y, half.h),
                 [top    |-> MaxOf(WrappingSub(p.x, half.w), 0),
                  left   |-> MaxOf(WrappingSub(p.y, half.h), 0),
                  bottom |-> MinOf(WrappingAdd(p.x, half.w), image_box.w),
                  right  |-> MinOf(WrappingAdd(p.y, half.h), image_box.h)]) :
            p \in {[x |-> true_focal_point(image_box.w, crop.w, focal_point.x),
                    y |-> true_focal_point(image_box.h, crop.h, focal_point.y)]},
            half \in {[w |-> ToI32(Div(FromU32(crop.w), F2)),
                       h |-> ToI32(Div(FromU32(crop.h), F2))]}} : TRUE

\* the result of a call that panics on Option::unwrap of None
Panic == [panic |-> TRUE]

\* the result of a call that panics on an arithmetic overflow
OverflowPanic == [panic |-> TRUE, cause |-> "arithmetic overflow"]

\* The results of a call in the builds of the crate: a crop box computed
\* with an overflow is a panic with overflow checks and the wrapped value
\* without them.
Outcomes(r) ==
    IF r # Panic /\ "overflow" \in DOMAIN r.crop
    THEN {OverflowPanic, [r EXCEPT !.crop = r.crop.overflow]}
    ELSE {r}

\* The closure calc_edge: r2 if present, else the other edge r1 scaled by the
\* aspect ratio i1 / i2.
calc_edge(i1, i2, r1, r2) ==
    IF IsSome(r2) THEN Unwrap(r2)
    ELSE ToU32(Mul(Div(i1, i2), FromU32(Unwrap(r1))))

\* r1.unwrap() is reached only when r2 is None, so it panics exactly when
\* both edges are None.
add_missing_edge(image_box, resize_box) ==
    IF ~IsSome(resize_box.w) /\ ~IsSome(resize_box.h) THEN Panic
    ELSE [w |-> calc_edge(FromU32(image_box.w), FromU32(image_box.h),
                          resize_box.h, resize_box.w),
          h |-> calc_edge(FromU32(image_box.h), FromU32(image_box.w),
                          resize_box.w, resize_box.h)]

\* zoom.unwrap_or(1.)
ZoomOr1(zoom) == IF IsSome(zoom) THEN Unwrap(zoom) ELSE F1

\* A faulty variant of resize_and_zoom: divides by the zoom instead of multiplying.
resize_and_zoom_inverted(image_box, resize_box, zoom) ==
    CHOOSE r \in
        {[w |-> ToU32(Div(Div(FromU32(image_box.w), resize_factor), ZoomOr1(zoom))),
          h |-> ToU32(Div(Div(FromU32(image_box.h), resize_factor), ZoomOr1(zoom)))] :
            resize_factor \in {Max(Div(FromU32(image_box.w), FromU32(resize_box.w)),
                                   Div(FromU32(image_box.h), FromU32(resize_box.h)))}} : TRUE

resize_and_zoom(image_box, resize_box, zoom) ==
    CHOOSE r \in
        {[w |-> ToU32(Mul(Div(FromU32(image_box.w), resize_factor), ZoomOr1(zoom))),
          h |-> ToU32(Mul(Div(FromU32(image_box.h), resize_factor), ZoomOr1(zoom)))] :
            resize_factor \in {Max(Div(FromU32(image_box.w), FromU32(resize_box.w)),
                                   Div(FromU32(image_box.h), FromU32(resize_box.h)))}} : TRUE

crop_and_zoom(image_box, crop, zoom) ==
    CHOOSE r \in
        {[w |-> ToU32(Mul(Div(FromU32(image_box.w), resize_factor), ZoomOr1(zoom))),
          h |-> ToU32(Mul(Div(FromU32(image_box.h), resize_factor), ZoomOr1(zoom)))] :
            resize_factor \in {Min(Div(FromU32(image_box.w), FromU32(crop.w)),
                                   Div(FromU32(image_box.h), FromU32(crop.h)))}} : TRUE

\* fit after `let resize_box = add_missing_edge(..)`; the tuple
\* (Box, CropBox) is the record [box, crop]
FitInto(image_box, resize_box, focal_point, zoom) ==
    IF resize_box = Panic THEN Panic
    ELSE CHOOSE r \in
            {[box |-> resized_and_zoomed,
              crop |-> crop_box(resized_and_zoomed, resize_box, focal_point)] :
                resized_and_zoomed \in {resize_and_zoom(image_box, resize_box, zoom)}} : TRUE

fit(image_box, resize_box, focal_point, zoom) ==
    CHOOSE r \in
        {FitInto(image_box, completed, focal_point, zoom) :
            completed \in {add_missing_edge(image_box, resize_box)}} : TRUE

crop(image_box, resize_box, focal_point, zoom) ==
    CHOOSE r \in
        {[box |-> resized_and_zoomed,
          crop |-> crop_box(resized_and_zoomed, resize_box, focal_point)] :
            resized_and_zoomed \in {crop_and_zoom(image_box, resize_box, zoom)}} : TRUE

\* The f64 a decimal query value t/10 deserialises to (the nearest f64, which
\* is also the correctly rounded quotient of the two exact integers).
Decimal(t) == F64Div(FromU32(t), FromU32(10))

(***************************************************************************)
(* The state machine: a sequence of calls into calc.rs and the sequence of *)
(* their results.  Every action performs the next pending call as a whole. *)
(***************************************************************************)
VARIABLES calls, ret

vars == <<calls, ret>>

\* Bounds of the explored inputs
MaxDim == 3

MaxLen == 12

MaxTall == 9

Dims == 1..MaxDim

OptDims == {None} \cup {Some(d) : d \in Dims}

Boxes == [w : Dims, h : Dims]

\* the OptionBoxes that OptionBox::build accepts
OptionBoxes ==
    {ob \in [w : OptDims, h : OptDims] : OptionBoxBuild(ob.w, ob.h) # ValidationErr}

\* zoom as validated by QueryInfo: absent or within [0.5, 2]
ZoomTenths == {5, 10, 12, 20}

Zooms == {None} \cup {Some(Decimal(t)) : t \in ZoomTenths}

\* focal points as validated by QueryInfo and RelativePoint::build, in tenths
\* of a percent
FocalTenths == {<<0, 0>>, <<500, 500>>, <<1000, 1000>>, <<0, 1000>>, <<333, 750>>}

FocalPoints ==
    {RelativePointBuild(d[1], d[2]) : d \in {<<Decimal(p[1]), Decimal(p[2])>> : p \in FocalTenths}}

Center == RelativePointBuild(F50, F50)

\* arbitrary f64 arguments: in range, on the bounds, out of range, not finite
F64Tenths == {0, 1, 333, 500, 999, 1000, 1001, 1500}

F64Args ==
    {Decimal(t) : t \in F64Tenths} \cup {F64Neg(FromU32(1)), F64Inf(FALSE), F64Inf(TRUE), F64NaN}

FitCalls ==
    {[fn |-> "fit", image_box |-> ib, resize_box |-> ob, focal_point |-> fp, zoom |-> z] :
        ib \in Boxes, ob \in OptionBoxes, fp \in FocalPoints, z \in Zooms}

CropCalls ==
    {[fn |-> "crop", image_box |-> ib, resize_box |-> rb, focal_point |-> fp, zoom |-> z] :
        ib \in Boxes, rb \in Boxes, fp \in FocalPoints, z \in Zooms}

FocalCalls ==
    {[fn |-> "true_focal_point", image_length |-> il, crop_length |-> cl, focal_point |-> fp] :
        il \in 0..MaxLen, cl \in 0..MaxLen, fp \in F64Args}

RelativePointCalls ==
    {[fn |-> "RelativePoint::build", x |-> x, y |-> y] : x \in F64Args, y \in F64Args}

OptionBoxCalls ==
    {[fn |-> "OptionBox::build", w |-> w, h |-> h] : w \in OptDims, h \in OptDims}

Pending == Len(ret) < Len(calls)

Cur == calls[Len(ret) + 1]

Fit ==
    /\ Pending
    /\ Cur.fn = "fit"
    /\ \E r \in Outcomes(fit(Cur.image_box, Cur.resize_box, Cur.focal_point, Cur.zoom)) :
            ret' = Append(ret, r)
    /\ UNCHANGED calls

Crop ==
    /\ Pending
    /\ Cur.fn = "crop"
    /\ \E r \in Outcomes(crop(Cur.image_box, Cur.resize_box, Cur.focal_point, Cur.zoom)) :
            ret' = Append(ret, r)
    /\ UNCHANGED calls

TrueFocalPoint ==
    /\ Pending
    /\ Cur.fn = "true_focal_point"
    /\ ret' = Append(ret, true_focal_point(Cur.image_length, Cur.crop_length, Cur.focal_point))
    /\ UNCHANGED calls

BuildRelativePoint ==
    /\ Pending
    /\ Cur.fn = "RelativePoint::build"
    /\ ret' = Append(ret, RelativePointBuild(Cur.x, Cur.y))
    /\ UNCHANGED calls

BuildOptionBox ==
    /\ Pending
    /\ Cur.fn = "OptionBox::build"
    /\ ret' = Append(ret, OptionBoxBuild(Cur.w, Cur.h))
    /\ UNCHANGED calls

AddMissingEdge ==
    /\ Pending
    /\ Cur.fn = "add_missing_edge"
    /\ ret' = Append(ret, add_missing_edge(Cur.image_box, Cur.resize_box))
    /\ UNCHANGED calls

\* One call of fit or crop on validated inputs, as transcode makes it.
Init ==
    /\ \/ calls \in {<<c>> : c \in FitCalls}
       \/ calls \in {<<c>> : c \in CropCalls}
    /\ ret = <<>>

Next == Fit \/ Crop

Spec == Init /\ [][Next]_vars

\* One call of true_focal_point.
InitFocal ==
    /\ calls \in {<<c>> : c \in FocalCalls}
    /\ ret = <<>>

NextFocal == TrueFocalPoint

SpecFocal == InitFocal /\ [][NextFocal]_vars

\* One call of a validating constructor.
InitBuild ==
    /\ \/ calls \in {<<c>> : c \in RelativePointCalls}
       \/ calls \in {<<c>> : c \in OptionBoxCalls}
    /\ ret = <<>>

NextBuild == BuildRelativePoint \/ BuildOptionBox

SpecBuild == InitBuild /\ [][NextBuild]_vars

\* fit and crop on the same image and fully specified target, at zoom absent
\* or 1: the two scaling modes side by side.
DualBoxes == [w : Dims, h : 1..MaxTall]

DualCalls ==
    {<<[fn |-> "fit", image_box |-> ib, resize_box |-> [w |-> Some(rb.w), h |-> Some(rb.h)],
        focal_point |-> Center, zoom |-> z],
       [fn |-> "crop", image_box |-> ib, resize_box |-> rb,
        focal_point |-> Center, zoom |-> z]>> :
        ib \in DualBoxes, rb \in DualBoxes, z \in {None, Some(F1)}}

InitDual ==
    /\ calls \in DualCalls
    /\ ret = <<>>

SpecDual == InitDual /\ [][Next]_vars

\* The same call of fit, or of crop, at two zoom values z1 < z2 above 1.
ZoomInTenths == {11, 12, 15, 20, 30}

ZoomPairs == {p \in ZoomInTenths \X ZoomInTenths : p[1] < p[2]}

FitZoomCalls ==
    {<<[fn |-> "fit", image_box |-> ib, resize_box |-> ob, focal_point |-> Center,
        zoom |-> Some(Decimal(p[1]))],
       [fn |-> "fit", image_box |-> ib, resize_box |-> ob, focal_point |-> Center,
        zoom |-> Some(Decimal(p[2]))]>> :
        ib \in Boxes, ob \in OptionBoxes, p \in ZoomPairs}

CropZoomCalls ==
    {<<[fn |-> "crop", image_box |-> ib, resize_box |-> rb, focal_point |-> Center,
        zoom |-> Some(Decimal(p[1]))],
       [fn |-> "crop", image_box |-> ib, resize_box |-> rb, focal_point |-> Center,
        zoom |-> Some(Decimal(p[2]))]>> :
        ib \in Boxes, rb \in Boxes, p \in ZoomPairs}

InitZoom ==
    /\ \/ calls \in FitZoomCalls
       \/ calls \in CropZoomCalls
    /\ ret = <<>>

SpecZoom == InitZoom /\ [][Next]_vars

\* One call of fit or crop on validated inputs with edges over the whole
\* range of u32: 0, small edges, i32::MAX, 2^31 (the bits of IntMin) and
\* u32::MAX.
WideEdges == {0, 1, MaxDim, IntMax, IntMin, U32Max}

WideOptEdges == {None} \cup {Some(d) : d \in WideEdges}

WideImageBoxes == [w : {0, 1, MaxDim, U32Max}, h : {0, 1, MaxDim, U32Max}]

WideOptionBoxes ==
    {ob \in [w : WideOptEdges, h : WideOptEdges] : OptionBoxBuild(ob.w, ob.h) # ValidationErr}

WideFocalPoints ==
    {RelativePointBuild(x, x) : x \in {F0, F50, F100}}

WideZooms == {None, Some(Decimal(5)), Some(F2)}

WideFitCalls ==
    {[fn |-> "fit", image_box |-> ib, resize_box |-> ob, focal_point |-> fp, zoom |-> z] :
        ib \in WideImageBoxes, ob \in WideOptionBoxes, fp \in WideFocalPoints, z \in WideZooms}

WideCropCalls ==
    {[fn |-> "crop", image_box |-> ib, resize_box |-> rb, focal_point |-> fp, zoom |-> z] :
        ib \in WideImageBoxes, rb \in [w : WideEdges, h : WideEdges],
        fp \in WideFocalPoints, z \in WideZooms}

InitWide ==
    /\ \/ calls \in {<<c>> : c \in WideFitCalls}
       \/ calls \in {<<c>> : c \in WideCropCalls}
    /\ ret = <<>>

SpecWide == InitWide /\ [][Next]_vars

\* One call of add_missing_edge, as fit makes it: an image with edges from 1
\* on, and a target that OptionBox::build accepts, with one edge missing or
\* with both present.  Edges are small or u32::MAX.
MaxEdge == 15

EdgeLengths == (1..MaxEdge) \cup {U32Max}

EdgeImageBoxes == [w : EdgeLengths, h : EdgeLengths]

EdgeOptionBoxes ==
    {ob \in {[w |-> None, h |-> Some(d)] : d \in EdgeLengths}
            \cup {[w |-> Some(d), h |-> None] : d \in EdgeLengths}
            \cup {[w |-> Some(b.w), h |-> Some(b.h)] : b \in Boxes} :
        OptionBoxBuild(ob.w, ob.h) # ValidationErr}

EdgeCalls ==
    {[fn |-> "add_missing_edge", image_box |-> ib, resize_box |-> ob] :
        ib \in EdgeImageBoxes, ob \in EdgeOptionBoxes}

InitEdge ==
    /\ calls \in {<<c>> : c \in EdgeCalls}
    /\ ret = <<>>

NextEdge == AddMissingEdge

SpecEdge == InitEdge /\ [][NextEdge]_vars

(***************************************************************************)
(* Properties of the calls made so far.                                    *)
(***************************************************************************)
\* the calls of function f that have returned
Returned(f) == {i \in 1..Len(ret) : calls[i].fn = f}

\* lo <= x <= hi as f64 comparisons of a number (NaN is in no range)
InRange(x, lo, hi) == ~IsNaN(x) /\ ~F64Lt(x, lo) /\ ~F64Gt(x, hi)

InPercent(p) == InRange(p.x, F0, F100) /\ InRange(p.y, F0, F100)

ZoomIsOne(zoom) == IsSome(zoom) => (F64Cmp(Unwrap(zoom), F1) = 0)

ZoomAtLeastOne(zoom) == IsSome(zoom) => (~IsNaN(Unwrap(zoom)) /\ ~F64Lt(Unwrap(zoom), F1))

ZoomInQueryRange(zoom) == IsSome(zoom) => InRange(Unwrap(zoom), Decimal(5), F2)

\* a <= b for two u32 (an integer below 0 holds a u32 from 2^31 on)
U32Le(a, b) == IF (a < 0) = (b < 0) THEN a <= b ELSE b < 0

EdgeOk(e) == IsSome(e) => U32Le(1, Unwrap(e))

\* the target of a fit call is an OptionBox, that of a crop call a Box
TargetOk(c) ==
    IF c.fn = "fit"
    THEN /\ OptionBoxBuild(c.resize_box.w, c.resize_box.h) # ValidationErr
         /\ EdgeOk(c.resize_box.w)
         /\ EdgeOk(c.resize_box.h)
    ELSE U32Le(1, c.resize_box.w) /\ U32Le(1, c.resize_box.h)

ValidCall(c) ==
    /\ U32Le(1, c.image_box.w)
    /\ U32Le(1, c.image_box.h)
    /\ TargetOk(c)
    /\ InPercent(c.focal_point)
    /\ ZoomInQueryRange(c.zoom)

FullySpecified(option_box) == IsSome(option_box.w) /\ IsSome(option_box.h)

\* the call returned no (dimensions, crop rectangle) pair: it panicked
IsPanic(r) == "panic" \in DOMAIN r

\* the rectangle lies inside the box under the code's edge pairing
Inside(r) ==
    /\ U32Le(0, r.crop.top)
    /\ U32Le(r.crop.top, r.crop.bottom)
    /\ U32Le(r.crop.bottom, r.box.w)
    /\ U32Le(0, r.crop.left)
    /\ U32Le(r.crop.left, r.crop.right)
    /\ U32Le(r.crop.right, r.box.h)

\* C1: every fit or crop call on image and target dimensions >= 1, a focal
\* point in [0,100]x[0,100] and zoom absent or in [0.5, 2] that returns,
\* returns a crop rectangle inside the returned result dimensions:
\* 0 <= top <= bottom <= result.w and 0 <= left <= right <= result.h.
C1_CropRectangleInsideResult ==
    \A i \in Returned("fit") \cup Returned("crop") :
        (ValidCall(calls[i]) /\ ~IsPanic(ret[i])) => Inside(ret[i])

\* C1 failing input: fit of a 1x1 image into the target 1 x u32::MAX with
\* the focal point (0, 0) and zoom 2 has returned the result 2x2 with a crop
\* rectangle whose right edge is 2^31.
C1_Reached_RightEdgeOutside ==
    \E i \in Returned("fit") :
        /\ calls[i].image_box = [w |-> 1, h |-> 1]
        /\ calls[i].resize_box = [w |-> Some(1), h |-> Some(U32Max)]
        /\ calls[i].focal_point = RelativePointBuild(F0, F0)
        /\ calls[i].zoom = Some(F2)
        /\ ret[i] = [box |-> [w |-> 2, h |-> 2],
                     crop |-> [top |-> 0, left |-> 0, bottom |-> 0, right |-> IntMin]]

\* C2: a fit call with zoom absent or equal to 1 returns the crop rectangle
\* that covers the whole scaled image: top = 0, left = 0, bottom = result.w
\* and right = result.h.
C2_FitCoversWholeImage ==
    \A i \in Returned("fit") :
        (ValidCall(calls[i]) /\ ZoomIsOne(calls[i].zoom))
        => (/\ ret[i] # Panic
            /\ ret[i].crop.top = 0
            /\ ret[i].crop.left = 0
            /\ ret[i].crop.bottom = ret[i].box.w
            /\ ret[i].crop.right = ret[i].box.h)

\* C2 failing input: fit of a 3x3 image into a 3x3 target without zoom has
\* returned the 3x3 result with a crop rectangle that ends at 2.
C2_Reached_OddTarget ==
    \E i \in Returned("fit") :
        /\ calls[i].image_box = [w |-> 3, h |-> 3]
        /\ calls[i].resize_box = [w |-> Some(3), h |-> Some(3)]
        /\ calls[i].focal_point = Center
        /\ calls[i].zoom = None
        /\ ret[i] = [box |-> [w |-> 3, h |-> 3],
                     crop |-> [top |-> 0, left |-> 0, bottom |-> 2, right |-> 2]]

\* C3: a crop call with zoom absent or >= 1 returns a rectangle of the target
\* size: bottom - top = target.w and right - left = target.h.
C3_CropRectangleHasTargetSize ==
    \A i \in Returned("crop") :
        (ValidCall(calls[i]) /\ ZoomAtLeastOne(calls[i].zoom))
        => (/\ ret[i].crop.bottom - ret[i].crop.top = calls[i].resize_box.w
            /\ ret[i].crop.right - ret[i].crop.left = calls[i].resize_box.h)

\* C3 failing input: crop of a 3x3 image to a 3x3 target without zoom has
\* returned a rectangle of size 2x2.
C3_Reached_OddTarget ==
    \E i \in Returned("crop") :
        /\ calls[i].image_box = [w |-> 3, h |-> 3]
        /\ calls[i].resize_box = [w |-> 3, h |-> 3]
        /\ calls[i].focal_point = Center
        /\ calls[i].zoom = None
        /\ ret[i] = [box |-> [w |-> 3, h |-> 3],
                     crop |-> [top |-> 0, left |-> 0, bottom |-> 2, right |-> 2]]

\* C4: at zoom absent or 1, for an image and a fully specified target with
\* all dimensions >= 1, fit's result does not exceed the target on either
\* axis and crop's result for the same inputs does not fall short of it on
\* either axis.
C4_ContainCoverDuality ==
    \A i \in Returned("fit") \cup Returned("crop") :
        (/\ ValidCall(calls[i])
         /\ ZoomIsOne(calls[i].zoom)
         /\ (calls[i].fn = "fit" => FullySpecified(calls[i].resize_box)))
        => IF calls[i].fn = "fit"
           THEN /\ ret[i].box.w <= Unwrap(calls[i].resize_box.w)
                /\ ret[i].box.h <= Unwrap(calls[i].resize_box.h)
           ELSE /\ ret[i].box.w >= calls[i].resize_box.w
                /\ ret[i].box.h >= calls[i].resize_box.h

\* C4 failing input: for the 2x9 image and the 1x7 target, fit has returned
\* a result within the target and crop a result of height 6, short of 7.
C4_Reached_ShortCover ==
    /\ Len(ret) = 2
    /\ calls[1].fn = "fit"
    /\ calls[2].fn = "crop"
    /\ calls[2].image_box = [w |-> 2, h |-> 9]
    /\ calls[2].resize_box = [w |-> 1, h |-> 7]
    /\ calls[1].image_box = calls[2].image_box
    /\ calls[2].zoom = None
    /\ ret[1].box.w <= 1
    /\ ret[1].box.h <= 7
    /\ ret[2].box = [w |-> 1, h |-> 6]

\* C5: for imageLength > cropLength >= 0 and focalPercent in [0,100],
\* true_focal_point returns p with 0 <= p - cropLength/2 and
\* p + cropLength/2 <= imageLength (the half truncated as crop_box does).
C5_FocalClamp ==
    \A i \in Returned("true_focal_point") :
        (/\ calls[i].image_length > calls[i].crop_length
         /\ calls[i].crop_length >= 0
         /\ InRange(calls[i].focal_point, F0, F100))
        => (/\ 0 <= ret[i] - (calls[i].crop_length \div 2)
            /\ ret[i] + (calls[i].crop_length \div 2) <= calls[i].image_length)

\* C5 failing input: true_focal_point(3, 2, 0.0) has returned 0, so the
\* window's near edge 0 - 1 is below 0.
C5_Reached_NearEdgeBelowZero ==
    \E i \in Returned("true_focal_point") :
        /\ calls[i].image_length = 3
        /\ calls[i].crop_length = 2
        /\ calls[i].focal_point = F0
        /\ ret[i] = 0

\* C6: for cropLength > imageLength >= 0 and every focalPercent,
\* true_focal_point returns the image midpoint imageLength/2 truncated
\* toward zero, whatever focalPercent is.
C6_DegenerateCentering ==
    \A i \in Returned("true_focal_point") :
        (/\ calls[i].crop_length > calls[i].image_length
         /\ calls[i].image_length >= 0)
        => ret[i] = calls[i].image_length \div 2

\* C6 witness: a call with a crop longer than the image and the focal point
\* at 100 has returned the midpoint, not the far end.
C6_Witness_FarFocalCentered ==
    \E i \in Returned("true_focal_point") :
        /\ calls[i].image_length = 4
        /\ calls[i].crop_length = 5
        /\ calls[i].focal_point = F100
        /\ ret[i] = 2

\* the second call repeats the first with a larger zoom, both above 1
ZoomedPair ==
    /\ Len(ret) = 2
    /\ calls[1].fn = calls[2].fn
    /\ calls[1].image_box = calls[2].image_box
    /\ calls[1].resize_box = calls[2].resize_box
    /\ calls[1].focal_point = calls[2].focal_point
    /\ ValidCall([calls[1] EXCEPT !.zoom = None])
    /\ IsSome(calls[1].zoom)
    /\ IsSome(calls[2].zoom)
    /\ F64Gt(Unwrap(calls[1].zoom), F1)
    /\ F64Lt(Unwrap(calls[1].zoom), Unwrap(calls[2].zoom))

\* C7 as stated: for two zoom values z1 < z2 with z1 > 1, both result
\* dimensions of fit (and of crop) at z2 are strictly greater than at z1.
C7_ZoomStrictlyMonotone ==
    ZoomedPair => (ret[1].box.w < ret[2].box.w /\ ret[1].box.h < ret[2].box.h)

\* C7 amended: for two zoom values z1 < z2 with z1 > 1, neither result
\* dimension of fit (or of crop) at z2 is smaller than at z1.
C7_ZoomMonotone ==
    ZoomedPair => (ret[1].box.w <= ret[2].box.w /\ ret[1].box.h <= ret[2].box.h)

\* C7 witness: a pair of calls at z1 < z2 has returned, and the larger zoom
\* gave the same size on one axis and a strictly larger size on the other.
C7_Witness_EqualAndLarger ==
    /\ ZoomedPair
    /\ \/ ret[1].box.w = ret[2].box.w /\ ret[1].box.h < ret[2].box.h
       \/ ret[1].box.w < ret[2].box.w /\ ret[1].box.h = ret[2].box.h

\* C8: every fit or crop call on image and target dimensions >= 1 and zoom
\* absent or in [0.5, 2] returns result.w >= 1 and result.h >= 1.
C8_ResultNonZero ==
    \A i \in Returned("fit") \cup Returned("crop") :
        ValidCall(calls[i]) => (ret[i] # Panic /\ ret[i].box.w >= 1 /\ ret[i].box.h >= 1)

\* C8 failing input: fit of a 1x3 image into a 1x1 target without zoom has
\* returned a result of width 0.
C8_Reached_ZeroWidth ==
    \E i \in Returned("fit") :
        /\ calls[i].image_box = [w |-> 1, h |-> 3]
        /\ calls[i].resize_box = [w |-> Some(1), h |-> Some(1)]
        /\ calls[i].zoom = None
        /\ ret[i].box = [w |-> 0, h |-> 1]

\* C9: RelativePoint::build(x, y) returns a validation error exactly when x
\* or y is outside [0, 100], and otherwise the point with x and y unchanged.
C9_RelativePointBuild ==
    \A i \in Returned("RelativePoint::build") :
        IF InRange(calls[i].x, F0, F100) /\ InRange(calls[i].y, F0, F100)
        THEN ret[i] = [x |-> calls[i].x, y |-> calls[i].y]
        ELSE ret[i] = ValidationErr

\* C9 failing input: build(NaN, 50) has returned a point, not an error.
C9_Reached_NaNAccepted ==
    \E i \in Returned("RelativePoint::build") :
        /\ IsNaN(calls[i].x)
        /\ calls[i].y = F50
        /\ ret[i] = [x |-> F64NaN, y |-> F50]

\* C10: OptionBox::build(w, h) returns a validation error exactly when both
\* w and h are absent, and otherwise the OptionBox with w and h unchanged.
C10_OptionBoxBuild ==
    \A i \in Returned("OptionBox::build") :
        IF calls[i].w = None /\ calls[i].h = None
        THEN ret[i] = ValidationErr
        ELSE ret[i] = [w |-> calls[i].w, h |-> calls[i].h]

\* C10 witness: a build with only the height present has returned an
\* OptionBox with that height and no width.
C10_Witness_OneEdge ==
    \E i \in Returned("OptionBox::build") :
        /\ calls[i].w = None
        /\ IsSome(calls[i].h)
        /\ ret[i] # ValidationErr
        /\ ret[i].w = None
        /\ ret[i].h = calls[i].h

\* the arguments are what the validating constructors and QueryInfo let pass
Validated(c) ==
    /\ c.fn = "fit" => OptionBoxBuild(c.resize_box.w, c.resize_box.h) # ValidationErr
    /\ RelativePointBuild(c.focal_point.x, c.focal_point.y) # ValidationErr
    /\ ZoomInQueryRange(c.zoom)

\* C11: for every OptionBox and RelativePoint that the build functions
\* return, every image box and every zoom absent or in [0.5, 2], fit and
\* crop return a (dimensions, crop rectangle) pair without any failure; the
\* unwrap in add_missing_edge is never reached for an absent edge.
C11_TotalAfterValidation ==
    \A i \in Returned("fit") \cup Returned("crop") :
        Validated(calls[i]) => ~IsPanic(ret[i])

\* C11 failing input: crop of a 1x1 image to the target u32::MAX x u32::MAX
\* at the centre without zoom has panicked on an arithmetic overflow.
C11_Reached_OverflowPanic ==
    \E i \in Returned("crop") :
        /\ calls[i].image_box = [w |-> 1, h |-> 1]
        /\ calls[i].resize_box = [w |-> U32Max, h |-> U32Max]
        /\ calls[i].focal_point = Center
        /\ calls[i].zoom = None
        /\ ret[i] = OverflowPanic

\* n is the f64 value v truncated toward zero, for v >= 0: n <= v < n + 1
TruncatedTo(v, n) ==
    /\ ~IsNaN(v)
    /\ ~F64Lt(v, FromU32(n))
    /\ F64Lt(v, Add(FromU32(n), F1))

\* the edge `given` scaled by the ratio of the image edges a / b, in f64
ScaledEdge(a, b, given) == Mul(Div(FromU32(a), FromU32(b)), FromU32(given))

\* C12: add_missing_edge returns every edge present in the target unchanged;
\* a missing width is (imageWidth / imageHeight) * givenHeight truncated
\* toward zero, and a missing height is (imageHeight / imageWidth) *
\* givenWidth truncated toward zero.
C12_AspectRatioCompletion ==
    \A i \in Returned("add_missing_edge") :
        /\ (IsSome(calls[i].resize_box.w) => (ret[i].w = Unwrap(calls[i].resize_box.w)))
        /\ (IsSome(calls[i].resize_box.h) => (ret[i].h = Unwrap(calls[i].resize_box.h)))
        /\ (~IsSome(calls[i].resize_box.w) =>
                TruncatedTo(ScaledEdge(calls[i].image_box.w, calls[i].image_box.h,
                                       Unwrap(calls[i].resize_box.h)), ret[i].w))
        /\ (~IsSome(calls[i].resize_box.h) =>
                TruncatedTo(ScaledEdge(calls[i].image_box.h, calls[i].image_box.w,
                                       Unwrap(calls[i].resize_box.w)), ret[i].h))

\* C12: add_missing_edge has returned for a 3x1 image and a target of height
\* u32::MAX without a width: the width is u32::MAX, not 3 * u32::MAX
C12_Reached_SaturatedWidth ==
    \E i \in Returned("add_missing_edge") :
        /\ calls[i].image_box = [w |-> MaxDim, h |-> 1]
        /\ calls[i].resize_box = [w |-> None, h |-> Some(U32Max)]
        /\ ret[i] = [w |-> U32Max, h |-> U32Max]

====
